---- MODULE Spec2Model ----
(***************************************************************************)
(* Model of mint-std140: the AsStd140 trait and its 18 macro-generated     *)
(* implementations (src/src/lib.rs).  A source value is a mint aggregate   *)
(* with named fields; a destination value is a std140 tuple built by the   *)
(* std140 constructor from positional arguments.  Callers (threads) hold   *)
(* a shared reference to one source value, or to one of its columns, and   *)
(* evaluate the constructor's arguments one after the other.               *)
(***************************************************************************)
EXTENDS Integers, Sequences, FiniteSets, TLC

\* ---------------------------------------------------------------- bounds
MaxScalar == 1
NumThreads == 2

Threads == 1..NumThreads
Scalars == 0..MaxScalar

\* ------------------------------------------------------------- the state
VARIABLES
  src,    \* the source value the callers share
  pc,     \* per caller: "idle", "eval" (inside as_std140) or "done"
  path,   \* per caller: the place borrowed as &self, <<>> or <<column>>
  args,   \* per caller: the constructor arguments evaluated so far
  ret     \* per caller: the destination returned, None before

vars == <<src, pc, path, args, ret>>

\* ------------------------------------------------------- mint side types
Names == <<"x", "y", "z", "w">>

FieldSet(n) == {Names[i] : i \in 1..n}

FieldIndex(f) == CHOOSE i \in 1..4 : Names[i] = f

MintVector(n, elem) == [fam |-> "Vector", dims |-> <<n>>, elem |-> elem]

\* mint::ColumnMatrix{a}x{b}<elem>; ColumnMatrixN is ColumnMatrix(n, n)
MintColumnMatrix(a, b, elem) == [fam |-> "ColumnMatrix", dims |-> <<a, b>>, elem |-> elem]

\* ---------------------------------------------------- std140 side types
Std140Vec(fam, n) == [fam |-> fam, dims |-> <<n>>]

Std140Mat(c, r) == [fam |-> "mat", dims |-> <<c, r>>]

NoType == [fam |-> "none", dims |-> <<>>]

None == [ty |-> NoType, comps |-> <<>>]

\* the tuple-struct constructor $std140_name(arg, ...)
MakeStd140(name, argv) == [ty |-> name, comps |-> argv]

\* --------------------------------------------------- the implementations
Impl(mint, std140, fields) == [mint |-> mint, std140 |-> std140, fields |-> fields]

\* Vector3<f32> with the field list written in the wrong order
VectorImplsSwapped ==
  { Impl(MintVector(2, "f32"), Std140Vec("vec", 2), <<"x", "y">>),
    Impl(MintVector(3, "f32"), Std140Vec("vec", 3), <<"x", "z", "y">>),
    Impl(MintVector(4, "f32"), Std140Vec("vec", 4), <<"x", "y", "z", "w">>),
    Impl(MintVector(2, "i32"), Std140Vec("ivec", 2), <<"x", "y">>),
    Impl(MintVector(3, "i32"), Std140Vec("ivec", 3), <<"x", "y", "z">>),
    Impl(MintVector(4, "i32"), Std140Vec("ivec", 4), <<"x", "y", "z", "w">>),
    Impl(MintVector(2, "u32"), Std140Vec("uvec", 2), <<"x", "y">>),
    Impl(MintVector(3, "u32"), Std140Vec("uvec", 3), <<"x", "y", "z">>),
    Impl(MintVector(4, "u32"), Std140Vec("uvec", 4), <<"x", "y", "z", "w">>) }

\* Vector2<i32> paired with the unsigned destination
VectorImplsKind ==
  { Impl(MintVector(2, "f32"), Std140Vec("vec", 2), <<"x", "y">>),
    Impl(MintVector(3, "f32"), Std140Vec("vec", 3), <<"x", "y", "z">>),
    Impl(MintVector(4, "f32"), Std140Vec("vec", 4), <<"x", "y", "z", "w">>),
    Impl(MintVector(2, "i32"), Std140Vec("uvec", 2), <<"x", "y">>),
    Impl(MintVector(3, "i32"), Std140Vec("ivec", 3), <<"x", "y", "z">>),
    Impl(MintVector(4, "i32"), Std140Vec("ivec", 4), <<"x", "y", "z", "w">>),
    Impl(MintVector(2, "u32"), Std140Vec("uvec", 2), <<"x", "y">>),
    Impl(MintVector(3, "u32"), Std140Vec("uvec", 3), <<"x", "y", "z">>),
    Impl(MintVector(4, "u32"), Std140Vec("uvec", 4), <<"x", "y", "z", "w">>) }

VectorImpls ==
  { Impl(MintVector(2, "f32"), Std140Vec("vec", 2), <<"x", "y">>),
    Impl(MintVector(3, "f32"), Std140Vec("vec", 3), <<"x", "y", "z">>),
    Impl(MintVector(4, "f32"), Std140Vec("vec", 4), <<"x", "y", "z", "w">>),
    Impl(MintVector(2, "i32"), Std140Vec("ivec", 2), <<"x", "y">>),
    Impl(MintVector(3, "i32"), Std140Vec("ivec", 3), <<"x", "y", "z">>),
    Impl(MintVector(4, "i32"), Std140Vec("ivec", 4), <<"x", "y", "z", "w">>),
    Impl(MintVector(2, "u32"), Std140Vec("uvec", 2), <<"x", "y">>),
    Impl(MintVector(3, "u32"), Std140Vec("uvec", 3), <<"x", "y", "z">>),
    Impl(MintVector(4, "u32"), Std140Vec("uvec", 4), <<"x", "y", "z", "w">>) }

\* ColumnMatrix4<f32> with the last two columns exchanged
MatrixImplsColumnSwap ==
  { Impl(MintColumnMatrix(2, 2, "f32"), Std140Mat(2, 2), <<"x", "y">>),
    Impl(MintColumnMatrix(3, 2, "f32"), Std140Mat(2, 3), <<"x", "y">>),
    Impl(MintColumnMatrix(4, 2, "f32"), Std140Mat(2, 4), <<"x", "y">>),
    Impl(MintColumnMatrix(2, 3, "f32"), Std140Mat(3, 2), <<"x", "y", "z">>),
    Impl(MintColumnMatrix(3, 3, "f32"), Std140Mat(3, 3), <<"x", "y", "z">>),
    Impl(MintColumnMatrix(4, 3, "f32"), Std140Mat(3, 4), <<"x", "y", "z">>),
    Impl(MintColumnMatrix(2, 4, "f32"), Std140Mat(4, 2), <<"x", "y", "z", "w">>),
    Impl(MintColumnMatrix(3, 4, "f32"), Std140Mat(4, 3), <<"x", "y", "z", "w">>),
    Impl(MintColumnMatrix(4, 4, "f32"), Std140Mat(4, 4), <<"x", "y", "w", "z">>) }

\* ColumnMatrix2x3<f32> with the last column left out of the field list
MatrixImplsDropColumn ==
  { Impl(MintColumnMatrix(2, 2, "f32"), Std140Mat(2, 2), <<"x", "y">>),
    Impl(MintColumnMatrix(3, 2, "f32"), Std140Mat(2, 3), <<"x", "y">>),
    Impl(MintColumnMatrix(4, 2, "f32"), Std140Mat(2, 4), <<"x", "y">>),
    Impl(MintColumnMatrix(2, 3, "f32"), Std140Mat(3, 2), <<"x", "y">>),
    Impl(MintColumnMatrix(3, 3, "f32"), Std140Mat(3, 3), <<"x", "y", "z">>),
    Impl(MintColumnMatrix(4, 3, "f32"), Std140Mat(3, 4), <<"x", "y", "z">>),
    Impl(MintColumnMatrix(2, 4, "f32"), Std140Mat(4, 2), <<"x", "y", "z", "w">>),
    Impl(MintColumnMatrix(3, 4, "f32"), Std140Mat(4, 3), <<"x", "y", "z", "w">>),
    Impl(MintColumnMatrix(4, 4, "f32"), Std140Mat(4, 4), <<"x", "y", "z", "w">>) }

\* ColumnMatrix3x2 and ColumnMatrix2x3 paired with the destination of the same numbers
MatrixImplsName ==
  { Impl(MintColumnMatrix(2, 2, "f32"), Std140Mat(2, 2), <<"x", "y">>),
    Impl(MintColumnMatrix(3, 2, "f32"), Std140Mat(3, 2), <<"x", "y">>),
    Impl(MintColumnMatrix(4, 2, "f32"), Std140Mat(2, 4), <<"x", "y">>),
    Impl(MintColumnMatrix(2, 3, "f32"), Std140Mat(2, 3), <<"x", "y", "z">>),
    Impl(MintColumnMatrix(3, 3, "f32"), Std140Mat(3, 3), <<"x", "y", "z">>),
    Impl(MintColumnMatrix(4, 3, "f32"), Std140Mat(3, 4), <<"x", "y", "z">>),
    Impl(MintColumnMatrix(2, 4, "f32"), Std140Mat(4, 2), <<"x", "y", "z", "w">>),
    Impl(MintColumnMatrix(3, 4, "f32"), Std140Mat(4, 3), <<"x", "y", "z", "w">>),
    Impl(MintColumnMatrix(4, 4, "f32"), Std140Mat(4, 4), <<"x", "y", "z", "w">>) }

MatrixImpls ==
  { Impl(MintColumnMatrix(2, 2, "f32"), Std140Mat(2, 2), <<"x", "y">>),
    Impl(MintColumnMatrix(3, 2, "f32"), Std140Mat(2, 3), <<"x", "y">>),
    Impl(MintColumnMatrix(4, 2, "f32"), Std140Mat(2, 4), <<"x", "y">>),
    Impl(MintColumnMatrix(2, 3, "f32"), Std140Mat(3, 2), <<"x", "y", "z">>),
    Impl(MintColumnMatrix(3, 3, "f32"), Std140Mat(3, 3), <<"x", "y", "z">>),
    Impl(MintColumnMatrix(4, 3, "f32"), Std140Mat(3, 4), <<"x", "y", "z">>),
    Impl(MintColumnMatrix(2, 4, "f32"), Std140Mat(4, 2), <<"x", "y", "z", "w">>),
    Impl(MintColumnMatrix(3, 4, "f32"), Std140Mat(4, 3), <<"x", "y", "z", "w">>),
    Impl(MintColumnMatrix(4, 4, "f32"), Std140Mat(4, 4), <<"x", "y", "z", "w">>) }

Impls == VectorImpls \cup MatrixImpls

\* trait resolution: a type converts only if an impl names it
HasImpl(ty) == \E i \in Impls : i.mint = ty

ImplFor(ty) == CHOOSE i \in Impls : i.mint = ty

RECURSIVE AsStd140(_)

\* one constructor argument of the vector macro: self.$field
VectorArg(self, f) == self.val[f]

\* every argument written as self.x.as_std140()
MatrixArgFirst(self, f) == AsStd140(self.val["x"])

\* one constructor argument of the matrix macro: self.$field.as_std140()
MatrixArg(self, f) == AsStd140(self.val[f])

\* an argument taken from a live destination of the same type, when there is one
EvalArgCached(impl, self, i) ==
  LET hits == {u \in DOMAIN pc : pc[u] = "done" /\ ret[u].ty = impl.std140}
  IN  IF hits # {}
        THEN ret[CHOOSE u \in hits : TRUE].comps[i]
        ELSE IF impl.mint.fam = "Vector"
               THEN VectorArg(self, impl.fields[i])
               ELSE MatrixArg(self, impl.fields[i])

\* the i-th argument of the constructor call, in the order of the field list
EvalArg(impl, self, i) ==
  IF impl.mint.fam = "Vector"
    THEN VectorArg(self, impl.fields[i])
    ELSE MatrixArg(self, impl.fields[i])

\* fn as_std140(&self) -> Self::Std140Type, as one sequential call
AsStd140(self) ==
  LET impl == ImplFor(self.ty)
  IN  MakeStd140(impl.std140,
                 [i \in 1..Len(impl.fields) |-> EvalArg(impl, self, i)])

\* ------------------------------------------------------------ the values
VectorValues(n, elem) ==
  {[ty |-> MintVector(n, elem), val |-> v] : v \in [FieldSet(n) -> Scalars]}

\* a column whose rows are pairwise different and different from the rows of
\* every column with another base
Column(a, elem, base) ==
  [ty |-> MintVector(a, elem), val |-> [f \in FieldSet(a) |-> 4 * base + FieldIndex(f) - 1]]

\* a matrix whose components are pairwise different
RotatedMatrix(a, b, elem, k) ==
  [ty |-> MintColumnMatrix(a, b, elem),
   val |-> [f \in FieldSet(b) |-> Column(a, elem, (FieldIndex(f) - 1 + k) % 4)]]

\* a matrix whose columns are all equal
UniformMatrix(a, b, elem, k) ==
  [ty |-> MintColumnMatrix(a, b, elem), val |-> [f \in FieldSet(b) |-> Column(a, elem, k)]]

MatrixValues(a, b, elem) ==
  {RotatedMatrix(a, b, elem, k) : k \in Scalars} \cup {UniformMatrix(a, b, elem, k) : k \in Scalars}

Supported ==
  UNION {VectorValues(n, e) : n \in 2..4, e \in {"f32", "i32", "u32"}}
  \cup UNION {MatrixValues(a, b, "f32") : a \in 2..4, b \in 2..4}

\* values of mint types the crate has no impl for
Unsupported == VectorValues(2, "f64") \cup MatrixValues(2, 2, "i32")

Sources == Supported \cup Unsupported

\* ------------------------------------------------------------ the callers
\* the places a caller can borrow: the value itself, or one of its columns
Paths(v) == {<<>>} \cup (IF v.ty.fam = "ColumnMatrix" THEN {<<f>> : f \in DOMAIN v.val} ELSE {})

At(v, p) == IF p = <<>> THEN v ELSE v.val[p[1]]

Self(t) == At(src, path[t])

Init ==
  /\ src \in Sources
  /\ pc = [t \in Threads |-> "idle"]
  /\ path = [t \in Threads |-> <<>>]
  /\ args = [t \in Threads |-> <<>>]
  /\ ret = [t \in Threads |-> None]

\* value.as_std140() is entered with &self = the borrowed place
Call(t, p) ==
  /\ pc[t] = "idle"
  /\ p \in Paths(src)
  /\ HasImpl(At(src, p).ty)
  /\ pc' = [pc EXCEPT ![t] = "eval"]
  /\ path' = [path EXCEPT ![t] = p]
  /\ args' = [args EXCEPT ![t] = <<>>]
  /\ UNCHANGED <<src, ret>>

\* argument evaluation that panics on a zero component
EvalNextPanics(t) ==
  /\ pc[t] = "eval"
  /\ LET impl == ImplFor(Self(t).ty)
     IN  /\ Len(args[t]) < Len(impl.fields)
         /\ (impl.mint.fam = "Vector" => EvalArg(impl, Self(t), Len(args[t]) + 1) # 0)
         /\ args' = [args EXCEPT ![t] = Append(@, EvalArg(impl, Self(t), Len(@) + 1))]
  /\ UNCHANGED <<src, pc, path, ret>>

\* arguments collected in one static buffer per impl instead of per call
EvalNextShared(t) ==
  /\ pc[t] = "eval"
  /\ LET impl == ImplFor(Self(t).ty)
     IN  /\ Len(args[t]) < Len(impl.fields)
         /\ args' = [u \in Threads |->
                       IF pc[u] = "eval" /\ ImplFor(Self(u).ty) = impl
                         THEN Append(args[u], EvalArg(impl, Self(t), Len(args[t]) + 1))
                         ELSE args[u]]
  /\ UNCHANGED <<src, pc, path, ret>>

\* the next argument of $std140_name(...) is evaluated
EvalNext(t) ==
  /\ pc[t] = "eval"
  /\ LET impl == ImplFor(Self(t).ty)
     IN  /\ Len(args[t]) < Len(impl.fields)
         /\ args' = [args EXCEPT ![t] = Append(@, EvalArg(impl, Self(t), Len(@) + 1))]
  /\ UNCHANGED <<src, pc, path, ret>>

\* a conversion that moves the components out and leaves zeroes behind
ReturnTakes(t) ==
  /\ pc[t] = "eval"
  /\ LET impl == ImplFor(Self(t).ty)
     IN  /\ Len(args[t]) = Len(impl.fields)
         /\ ret' = [ret EXCEPT ![t] = MakeStd140(impl.std140, args[t])]
  /\ pc' = [pc EXCEPT ![t] = "done"]
  /\ args' = [args EXCEPT ![t] = <<>>]
  /\ src' = [src EXCEPT !.val = [f \in DOMAIN src.val |->
                IF src.ty.fam = "Vector" THEN 0
                ELSE Column(src.ty.dims[1], src.ty.elem, 0)]]
  /\ UNCHANGED path

\* the constructor builds the destination, which is returned by value
Return(t) ==
  /\ pc[t] = "eval"
  /\ LET impl == ImplFor(Self(t).ty)
     IN  /\ Len(args[t]) = Len(impl.fields)
         /\ ret' = [ret EXCEPT ![t] = MakeStd140(impl.std140, args[t])]
  /\ pc' = [pc EXCEPT ![t] = "done"]
  /\ args' = [args EXCEPT ![t] = <<>>]
  /\ UNCHANGED <<src, path>>

\* the caller drops the destination and the borrow
Drop(t) ==
  /\ pc[t] = "done"
  /\ pc' = [pc EXCEPT ![t] = "idle"]
  /\ path' = [path EXCEPT ![t] = <<>>]
  /\ ret' = [ret EXCEPT ![t] = None]
  /\ UNCHANGED <<src, args>>

Next ==
  \/ \E t \in Threads : \E p \in Paths(src) : Call(t, p)
  \/ \E t \in Threads : EvalNext(t)
  \/ \E t \in Threads : Return(t)
  \/ \E t \in Threads : Drop(t)

Spec == Init /\ [][Next]_vars

\* ------------------------------------------------ vocabulary of the claims
\* the 18 shapes, enumerated independently of the implementation tables
SupportedType(ty) ==
  \/ /\ ty.fam = "Vector"
     /\ ty.dims[1] \in 2..4
     /\ ty.elem \in {"f32", "i32", "u32"}
  \/ /\ ty.fam = "ColumnMatrix"
     /\ ty.dims[1] \in 2..4
     /\ ty.dims[2] \in 2..4
     /\ ty.elem = "f32"

OnVector(t) == Self(t).ty.fam = "Vector"

OnMatrix(t) == Self(t).ty.fam = "ColumnMatrix"

\* C1: a finished vector conversion has the arity of its source and
\* d[0] = v.x, d[1] = v.y, d[2] = v.z, d[3] = v.w as far as the arity goes.
C1_VectorComponents ==
  \A t \in Threads :
    (pc[t] = "done" /\ OnVector(t)) =>
      LET v == Self(t).val
          d == ret[t].comps
          n == Self(t).ty.dims[1]
      IN  /\ Len(d) = n
          /\ Cardinality(DOMAIN v) = n
          /\ d[1] = v["x"]
          /\ d[2] = v["y"]
          /\ (n >= 3 => d[3] = v["z"])
          /\ (n >= 4 => d[4] = v["w"])

C1_Witness ==
  \E t \in Threads :
    /\ pc[t] = "done"
    /\ path[t] = <<>>
    /\ src.ty = MintVector(4, "i32")
    /\ src.val["x"] # src.val["y"]
    /\ src.val["y"] # src.val["z"]
    /\ src.val["z"] # src.val["w"]

\* C2: a finished matrix conversion has, at column c and row r, the row-r
\* component of the source's c-th column, columns in the order x, y, z, w.
C2_MatrixComponents ==
  \A t \in Threads :
    (pc[t] = "done" /\ OnMatrix(t)) =>
      LET m == Self(t).val
          d == ret[t].comps
          nc == Cardinality(DOMAIN m)
      IN  /\ Len(d) = nc
          /\ \A c \in 1..nc :
                LET col == m[Names[c]].val
                    nr == Cardinality(DOMAIN col)
                IN  /\ Len(d[c].comps) = nr
                    /\ \A r \in 1..nr : d[c].comps[r] = col[Names[r]]

C2_Witness ==
  \E t \in Threads :
    /\ pc[t] = "done"
    /\ src.ty = MintColumnMatrix(3, 4, "f32")
    /\ path[t] = <<>>
    /\ src.val["x"] # src.val["y"]
    /\ src.val["z"] # src.val["w"]
    /\ src.val["y"] # src.val["z"]

\* C3: the call is total.  A caller of any of the 18 shapes can enter the
\* call; a call in flight can always take its next step and never evaluates
\* more arguments than the shape has fields; a finished call holds a
\* destination of the impl's type with one scalar (or one column) per field.
C3_Total ==
  \A t \in Threads :
    /\ pc[t] = "idle" =>
         \A p \in Paths(src) : SupportedType(At(src, p).ty) => ENABLED Call(t, p)
    /\ pc[t] = "eval" =>
         /\ SupportedType(Self(t).ty)
         /\ Len(args[t]) <= Cardinality(DOMAIN Self(t).val)
         /\ ENABLED (EvalNext(t) \/ Return(t))
    /\ pc[t] = "done" =>
         /\ ret[t].ty # NoType
         /\ Len(ret[t].comps) = Cardinality(DOMAIN Self(t).val)
         /\ OnVector(t) => \A i \in 1..Len(ret[t].comps) : ret[t].comps[i] \in Nat
         /\ OnMatrix(t) => \A i \in 1..Len(ret[t].comps) :
                             /\ ret[t].comps[i].ty.fam = "vec"
                             /\ \A j \in 1..Len(ret[t].comps[i].comps) :
                                  ret[t].comps[i].comps[j] \in Nat

C3_Witness ==
  \E t \in Threads :
    /\ pc[t] = "done"
    /\ path[t] = <<>>
    /\ src.ty = MintVector(3, "f32")
    /\ \A f \in DOMAIN src.val : src.val[f] = 0

\* C4: no step changes the source, and the step that returns changes only
\* the returning caller's destination and position.
C4_Frame ==
  [][ /\ src' = src
      /\ \A t \in Threads :
           (pc[t] = "eval" /\ pc'[t] = "done") =>
             /\ path'[t] = path[t]
             /\ Self(t)' = Self(t)
             /\ \A u \in Threads \ {t} :
                  /\ pc'[u] = pc[u]
                  /\ path'[u] = path[u]
                  /\ args'[u] = args[u]
                  /\ ret'[u] = ret[u]
    ]_vars

C4_Witness ==
  \E t \in Threads :
    /\ pc[t] = "done"
    /\ path[t] = <<>>
    /\ src.ty = MintColumnMatrix(2, 2, "f32")
    /\ \E f \in DOMAIN src.val : src.val[f].val["y"] # 0

\* C5: two finished conversions of equal source values hold equal
\* destinations, whatever ran in between.
C5_Deterministic ==
  \A t1, t2 \in Threads :
    ( /\ pc[t1] = "done"
      /\ pc[t2] = "done"
      /\ (path[t1] = <<>>) = (path[t2] = <<>>)
      /\ Self(t1) = Self(t2) ) => ret[t1] = ret[t2]

C5_Witness ==
  \E t1, t2 \in Threads :
    /\ t1 # t2
    /\ pc[t1] = "done"
    /\ pc[t2] = "done"
    /\ path[t1] = <<"x">>
    /\ path[t2] = <<"y">>
    /\ src.val["x"] = src.val["y"]
    /\ src.val["x"].val["x"] # 0

\* C6: under every interleaving the source stays as it is, each argument
\* list in flight is a prefix of the sequential call's arguments, and each
\* finished call holds the destination of the sequential call on its source.
C6_Concurrent ==
  [][ /\ src' = src
      /\ \A t \in Threads :
           LET seq == AsStd140(At(src, path'[t]))
           IN  /\ pc'[t] = "eval" =>
                    /\ Len(args'[t]) <= Len(seq.comps)
                    /\ \A i \in 1..Len(args'[t]) : args'[t][i] = seq.comps[i]
               /\ pc'[t] = "done" => ret'[t] = seq
    ]_vars

C6_Witness ==
  \E t1, t2 \in Threads :
    /\ pc[t1] = "done"
    /\ pc[t2] = "eval"
    /\ Len(args[t2]) = 1
    /\ path[t1] = <<"y">>
    /\ path[t2] = <<"x">>
    /\ src.val["x"] # src.val["y"]

KindFam(e) == CASE e = "f32" -> "vec" [] e = "i32" -> "ivec" [] e = "u32" -> "uvec"

The18Types ==
  {MintVector(n, e) : n \in 2..4, e \in {"f32", "i32", "u32"}}
  \cup {MintColumnMatrix(a, b, "f32") : a \in 2..4, b \in 2..4}

\* C7: exactly the 18 shapes have an impl, one each; a call can be entered
\* for these and for no other type; a vector's destination has the source's
\* arity and the family of its scalar kind (f32 vec, i32 ivec, u32 uvec).
C7_ShapesAndKinds ==
  /\ Cardinality(Impls) = 18
  /\ {i.mint : i \in Impls} = The18Types
  /\ \A i, j \in Impls : i.mint = j.mint => i = j
  /\ \A i \in VectorImpls : i.std140 = Std140Vec(KindFam(i.mint.elem), i.mint.dims[1])
  /\ \A t \in Threads :
       /\ pc[t] = "idle" =>
            \A p \in Paths(src) : (ENABLED Call(t, p)) <=> SupportedType(At(src, p).ty)
       /\ pc[t] # "idle" => Self(t).ty \in The18Types
       /\ (pc[t] = "done" /\ OnVector(t)) =>
            /\ ret[t].ty = Std140Vec(KindFam(Self(t).ty.elem), Self(t).ty.dims[1])
            /\ Len(ret[t].comps) = Self(t).ty.dims[1]

C7_Witness ==
  \E t \in Threads :
    /\ pc[t] = "done"
    /\ path[t] = <<>>
    /\ src.ty = MintVector(3, "u32")
    /\ ret[t].ty.fam = "uvec"

Combos == (2..4) \X (2..4)

\* C8 as stated: the 9 matrix shapes cover every column count and row count
\* in 2..4, and the source shape named CxR has C columns of R components.
C8_ColumnsByRows ==
  /\ {i.mint.dims : i \in MatrixImpls} = Combos
  /\ \A t \in Threads :
       (pc[t] = "done" /\ OnMatrix(t)) =>
         /\ Cardinality(DOMAIN Self(t).val) = Self(t).ty.dims[1]
         /\ Len(ret[t].comps) = Self(t).ty.dims[1]
         /\ \A c \in 1..Len(ret[t].comps) : Len(ret[t].comps[c].comps) = Self(t).ty.dims[2]

\* C8 as amended: the 9 matrix shapes cover every column count and row count
\* in 2..4, and the source shape named AxB has B columns of A components
\* (rows x columns); the conversion reads exactly these.
C8_RowsByColumns ==
  /\ Cardinality(MatrixImpls) = 9
  /\ {i.mint.dims : i \in MatrixImpls} = Combos
  /\ {<<Len(i.fields), i.mint.dims[1]>> : i \in MatrixImpls} = Combos
  /\ \A t \in Threads :
       (pc[t] = "done" /\ OnMatrix(t)) =>
         /\ Cardinality(DOMAIN Self(t).val) = Self(t).ty.dims[2]
         /\ Len(ret[t].comps) = Self(t).ty.dims[2]
         /\ \A c \in 1..Len(ret[t].comps) : Len(ret[t].comps[c].comps) = Self(t).ty.dims[1]

C8_Witness ==
  \E t \in Threads :
    /\ pc[t] = "done"
    /\ path[t] = <<>>
    /\ src.ty = MintColumnMatrix(2, 4, "f32")
    /\ Len(ret[t].comps) = 4
    /\ Len(ret[t].comps[1].comps) = 2

\* C9: a matrix conversion is the vector conversion of each column, in the
\* order x, y, z, w: every argument evaluated so far, and every column of a
\* finished destination, is the destination of the column's own conversion.
C9_Composition ==
  \A t \in Threads :
    OnMatrix(t) =>
      LET m == Self(t).val
          nc == Cardinality(DOMAIN m)
      IN  /\ pc[t] = "eval" =>
               \A c \in 1..Len(args[t]) : args[t][c] = AsStd140(m[Names[c]])
          /\ pc[t] = "done" =>
               ret[t].comps = [c \in 1..nc |-> AsStd140(m[Names[c]])]

C9_Witness ==
  \E t1, t2 \in Threads :
    /\ pc[t1] = "done"
    /\ pc[t2] = "done"
    /\ src.ty = MintColumnMatrix(4, 3, "f32")
    /\ path[t1] = <<>>
    /\ path[t2] = <<"z">>
    /\ ret[t1].comps[3] = ret[t2]
    /\ ret[t1].comps[1] # ret[t2]

\* C10: ColumnMatrix{A}x{B} is read through its first B column fields, each
\* an A-component float vector, and converts to mat{B}x{A}; the destination
\* has one column per source column field, each of the source column's
\* arity; the 9 source types map one-to-one to 9 destination types.
C10_NameSwap ==
  /\ \A i \in MatrixImpls :
       /\ i.fields = SubSeq(Names, 1, i.mint.dims[2])
       /\ i.std140 = Std140Mat(i.mint.dims[2], i.mint.dims[1])
  /\ Cardinality({i.std140 : i \in MatrixImpls}) = 9
  /\ \A i, j \in MatrixImpls : i.std140 = j.std140 => i.mint = j.mint
  /\ \A t \in Threads :
       (pc[t] = "done" /\ OnMatrix(t)) =>
         LET A == Self(t).ty.dims[1]
             B == Self(t).ty.dims[2]
             m == Self(t).val
         IN  /\ DOMAIN m = FieldSet(B)
             /\ ret[t].ty = Std140Mat(B, A)
             /\ Len(ret[t].comps) = Cardinality(DOMAIN m)
             /\ \A c \in 1..Len(ret[t].comps) :
                  /\ m[Names[c]].ty = MintVector(A, "f32")
                  /\ ret[t].comps[c].ty = Std140Vec("vec", A)
                  /\ Len(ret[t].comps[c].comps) = Cardinality(DOMAIN m[Names[c]].val)

C10_Witness ==
  \E t \in Threads :
    /\ pc[t] = "done"
    /\ path[t] = <<>>
    /\ src.ty = MintColumnMatrix(4, 2, "f32")
    /\ ret[t].ty = Std140Mat(2, 4)

====
